---- MODULE Spec2Model ----
(***************************************************************************)
(* The project settings route of the webapp:                               *)
(*   apps/webapp/app/features/ee/projects/routes/$projectP/settings.tsx    *)
(*                                                                         *)
(* The module models the route's `action` handler step by step (one step   *)
(* per await, each with its rejection), the reshaping of the flat form      *)
(* fields into the environment-variable mapping, and the two forms of the  *)
(* settings page that submit to the handler.                               *)
(*                                                                         *)
(* Strings that the code inspects character by character (form keys) are   *)
(* sequences of one-character strings; strings the code only passes on     *)
(* (form values, slugs, names) are opaque TLA+ strings.  A JavaScript      *)
(* object is the sequence of its <<key, value>> pairs in insertion order;  *)
(* no key of the model is integer-like, so insertion order is the order    *)
(* Object.entries yields.                                                  *)
(***************************************************************************)
EXTENDS Integers, Sequences, FiniteSets, TLC

VARIABLES
    pc,           \* position of the handler: idle, received, ..., done, failed
    origin,       \* who sent the request: "page" (a form of the page) or "direct"
    params,       \* route params of the request: [projectP, organizationSlug]
    body,         \* kind of the request body: "form", "json" or "none"
    formPayload,  \* the request's form data: sequence of <<key, value>> fields
    formRead,     \* request.formData() has been awaited
    action,       \* local `action` (formPayload.get("action")), Unread before
    formEntries,  \* local `formEntries`
    envVars,      \* local `envVars`
    validation,   \* local `validation`
    isDeploying,  \* local `isDeploying` (FALSE until service.call returned)
    project,      \* local `project` returned by DisableProjectService.call
    session,      \* flash message stored by setRequestSuccessMessage
    calls,        \* collaborator invocations of this request
    updateArg,    \* second argument UpdateProjectSettings.call received
    response,     \* the Response the handler returned
    thrown,       \* the exception that left the handler, "none" otherwise
    ui,           \* settings page: "viewing" or "confirming" (prompt open)
    prompt        \* answer to the last confirm(): "none", "accepted", "declined"

vars == <<pc, origin, params, body, formPayload, formRead, action, formEntries,
          envVars, validation, isDeploying, project, session, calls,
          updateArg, response, thrown, ui, prompt>>

(***************************************************************************)
(* Bounds                                                                  *)
(***************************************************************************)
\* most fields in a request sent directly to the handler
MaxFields == 2
\* most characters following "envVars[" in a form key
MaxNameLen == 3

(***************************************************************************)
(* Strings                                                                 *)
(***************************************************************************)
SeqsUpTo(S, n) == UNION {[1..k -> S] : k \in 0..n}

\* "envVars["
Prefix == <<"e", "n", "v", "V", "a", "r", "s", "[">>
\* "]"
Close == <<"]">>
ActionKey == <<"a", "c", "t", "i", "o", "n">>
AutoDeployKey == <<"a", "u", "t", "o", "D", "e", "p", "l", "o", "y">>
BranchKey == <<"b", "r", "a", "n", "c", "h">>
BuildCommandKey == <<"b", "u", "i", "l", "d", "C", "o", "m", "m", "a", "n", "d">>
StartCommandKey == <<"s", "t", "a", "r", "t", "C", "o", "m", "m", "a", "n", "d">>

\* p occurs in s at position i
MatchesAt(s, p, i) ==
    /\ i + Len(p) - 1 <= Len(s)
    /\ \A j \in 1..Len(p) : s[i + j - 1] = p[j]

\* String.prototype.startsWith
StartsWith(s, p) == MatchesAt(s, p, 1)

\* String.prototype.indexOf, 1-based; 0 when p does not occur
IndexOf(s, p) ==
    IF \E i \in 1..(Len(s) + 1) : MatchesAt(s, p, i)
    THEN CHOOSE i \in 1..(Len(s) + 1) :
            /\ MatchesAt(s, p, i)
            /\ \A k \in 1..(i - 1) : ~MatchesAt(s, p, k)
    ELSE 0

\* String.prototype.replace with a string pattern: the first occurrence only
ReplaceFirst(s, p, r) ==
    LET i == IndexOf(s, p)
    IN  IF i = 0 THEN s
        ELSE SubSeq(s, 1, i - 1) \o r \o SubSeq(s, i + Len(p), Len(s))

(***************************************************************************)
(* Objects and form data                                                   *)
(***************************************************************************)
Null == "<null>"
Unread == "<unread>"

ObjKeys(obj) == {obj[i][1] : i \in 1..Len(obj)}

ObjHas(obj, k) == k \in ObjKeys(obj)

ObjGet(obj, k) ==
    IF ObjHas(obj, k)
    THEN obj[CHOOSE i \in 1..Len(obj) : obj[i][1] = k][2]
    ELSE Null

\* a mutation of ObjSet: a key that is already present keeps its first value
ObjSetKeepsFirst(obj, k, v) ==
    IF ObjHas(obj, k) THEN obj ELSE Append(obj, <<k, v>>)

\* obj[k] = v, and { ...obj, [k]: v }: a present key keeps its place and
\* takes the new value, a new key goes last
ObjSet(obj, k, v) ==
    IF ObjHas(obj, k)
    THEN LET i == CHOOSE j \in 1..Len(obj) : obj[j][1] = k
         IN  SubSeq(obj, 1, i - 1) \o <<<<k, v>>>> \o SubSeq(obj, i + 1, Len(obj))
    ELSE Append(obj, <<k, v>>)

\* FormData.get: the first value of the name, null when there is none
FormGet(form, name) ==
    IF \E i \in 1..Len(form) : form[i][1] = name
    THEN form[CHOOSE i \in 1..Len(form) :
                /\ form[i][1] = name
                /\ \A k \in 1..(i - 1) : form[k][1] # name][2]
    ELSE Null

RECURSIVE ObjectFromEntries(_)
\* Object.fromEntries(formPayload)
ObjectFromEntries(entries) ==
    IF entries = <<>> THEN <<>>
    ELSE LET n == Len(entries)
         IN  ObjSet(ObjectFromEntries(SubSeq(entries, 1, n - 1)),
                    entries[n][1], entries[n][2])

(***************************************************************************)
(* The form field reshaper                                                 *)
(***************************************************************************)
\* .filter(([key]) => key.startsWith("envVars["))
IsEnvVarEntry(entry) == StartsWith(entry[1], Prefix)

\* key.replace("envVars[", "").replace("]", "")
EnvVarKey(key) == ReplaceFirst(ReplaceFirst(key, Prefix, <<>>), Close, <<>>)

RECURSIVE ReduceEnvVars(_)
\* .reduce((acc, [key, value]) => ({ ...acc, [envVarKey]: value }), {})
ReduceEnvVars(entries) ==
    IF entries = <<>> THEN <<>>
    ELSE LET n == Len(entries)
         IN  ObjSet(ReduceEnvVars(SubSeq(entries, 1, n - 1)),
                    EnvVarKey(entries[n][1]), entries[n][2])

\* const envVars = Object.entries(formEntries).filter(...).reduce(...)
EnvVarsOf(entries) == ReduceEnvVars(SelectSeq(entries, IsEnvVarEntry))

(***************************************************************************)
(* Values of a request                                                     *)
(***************************************************************************)
Str(v) == [t |-> "string", v |-> v]
Missing == [t |-> "undefined", v |-> ""]
NotAString == [t |-> "number", v |-> "7"]

\* what a route param can hold
ParamValues(v) == {Str(v), Missing, NotAString}
RouteParams ==
    [projectP : ParamValues("proj"), organizationSlug : ParamValues("acme")]
PageParams == [projectP |-> Str("proj"), organizationSlug |-> Str("acme")]
NoParams == [projectP |-> Missing, organizationSlug |-> Missing]

Values == {"x", "y"}
ActionValues == {"destroy", "save", "x"}
NameChars == {"A", "]"}
EnvKeyA == Prefix \o <<"A", "]">>

\* fields of a request sent to the handler by any HTTP client
DirectFields ==
    {<<ActionKey, a>> : a \in ActionValues}
        \cup {<<EnvKeyA, v>> : v \in Values} \cup {<<BranchKey, "x">>}
DirectForms == SeqsUpTo(DirectFields, MaxFields)

\* request bodies request.formData() cannot parse: another content type
\* (JSON), or no body at all
NonFormBodies == {"json", "none"}

\* the body is multipart/form-data or application/x-www-form-urlencoded
IsFormBody(b) == b = "form"

\* keys the reshaper is exercised on: every key that begins with the
\* wrapper's prefix, a plain key, and a key that only contains the prefix
ReshaperKeys ==
    {Prefix \o s : s \in SeqsUpTo(NameChars, MaxNameLen)}
        \cup {BranchKey, <<"x">> \o EnvKeyA}
ReshaperFields == {<<k, v>> : k \in ReshaperKeys, v \in Values}
ReshaperForms == SeqsUpTo(ReshaperFields, MaxFields)

(***************************************************************************)
(* Responses, flash messages, validation results                          *)
(***************************************************************************)
NoBody == [type |-> "none", errors |-> <<>>]
NoSession == <<>>
NoResponse ==
    [kind |-> "none", status |-> 0, location |-> <<>>, cookie |-> NoSession,
     body |-> NoBody]

\* redirect(url, { headers: await setToastMessageCookie(session) })
Redirect(location, cookie) ==
    [kind |-> "redirect", status |-> 302, location |-> location,
     cookie |-> cookie, body |-> NoBody]

\* typedjson(body, { status, headers })
TypedJson(payload, status, cookie) ==
    [kind |-> "json", status |-> status, location |-> <<>>, cookie |-> cookie,
     body |-> payload]

\* `/orgs/${organizationSlug}/projects`
ProjectListPath(p) == <<"orgs", p.organizationSlug.v, "projects">>
\* `/orgs/${organizationSlug}/projects/${projectP}`
ProjectPath(p) == <<"orgs", p.organizationSlug.v, "projects", p.projectP.v>>

\* `Repository ${project.name} has been removed and will no longer be deployed.`
DestroyMessage(name) == <<"removed", name>>
\* isDeploying ? "Settings updated. Deploying your repo now..." : "... next deployment."
SaveMessage(deploying) ==
    IF deploying THEN <<"deploying-now">> ELSE <<"next-deployment">>

NoData == [validated |-> FALSE, fields |-> <<>>, envVars |-> <<>>]
NoValidation == [type |-> "none", errors |-> <<>>, data |-> NoData]
ProjectNames == {"repoA", "repoB"}
ErrorLists ==
    {<<[path |-> "branch", message |-> "Required"]>>,
     <<[path |-> "branch", message |-> "Required"],
       [path |-> "A", message |-> "Required"]>>}

\* UpdateProjectSettings.validate(formEntries, envVars): the payload-error
\* variant with its list of field errors, or the success variant with the
\* validated payload; the rules themselves belong to the schema
ValidateResults(entries, env) ==
    {[type |-> "payloadError", errors |-> e, data |-> NoData] : e \in ErrorLists}
        \cup {[type |-> "success", errors |-> <<>>,
               data |-> [validated |-> TRUE, fields |-> entries, envVars |-> env]]}

NoCalls == [disable |-> 0, validate |-> 0, update |-> 0]

(***************************************************************************)
(* Decisions of the handler and of the page                                *)
(***************************************************************************)
\* a mutation of ParamsValid: the params are used unchecked
ParamsUnchecked(p) == TRUE

\* z.object({ projectP: z.string(), organizationSlug: z.string() }).parse(params)
ParamsValid(p) == p.projectP.t = "string" /\ p.organizationSlug.t = "string"

\* a mutation of IsDestroy: everything but "save" removes the project
IsNotSave(a) == a # "save"

\* a mutation of IsDestroy: the discriminator is compared with the wrong word
IsSave(a) == a = "save"

\* action === "destroy"
IsDestroy(a) == a = "destroy"

\* a mutation of ValidationErrorResponse: the errors are answered as a success
ValidationErrorAsOk(errors) ==
    TypedJson([type |-> "validationError", errors |-> errors], 200, NoSession)

\* typedjson({ type: "validationError", errors }, { status: 422 })
ValidationErrorResponse(errors) ==
    TypedJson([type |-> "validationError", errors |-> errors], 422, NoSession)

\* a mutation of SaveResponse: the test of isDeploying is inverted
SaveResponseInverted(deploying, p, cookie) ==
    IF ~deploying
    THEN Redirect(ProjectPath(p), cookie)
    ELSE TypedJson([type |-> "success", errors |-> <<>>], 200, cookie)

\* a mutation of SaveResponse: the success response loses its status
SaveResponseCreated(deploying, p, cookie) ==
    IF deploying
    THEN Redirect(ProjectPath(p), cookie)
    ELSE TypedJson([type |-> "success", errors |-> <<>>], 201, cookie)

\* if (isDeploying) return redirect(...); return typedjson({ type: "success" }, ...)
SaveResponse(deploying, p, cookie) ==
    IF deploying
    THEN Redirect(ProjectPath(p), cookie)
    ELSE TypedJson([type |-> "success", errors |-> <<>>], 200, cookie)

\* a mutation of SubmitPrevented: the answer to the prompt is ignored
SubmitNeverPrevented(accepted) == FALSE

\* onSubmit={(e) => !confirm("Are you sure ...") && e.preventDefault()}
SubmitPrevented(accepted) == ~accepted

\* the fields of the page's settings form when Save is pressed
PageSaveForms ==
    {ev \o <<<<AutoDeployKey, ad>>, <<BranchKey, b>>, <<BuildCommandKey, "x">>,
             <<StartCommandKey, "x">>, <<ActionKey, "save">>>> :
        ev \in {<<>>} \cup {<<<<EnvKeyA, v>>>> : v \in Values},
        ad \in {"yes", "no"}, b \in Values}

\* the fields of the page's remove form
PageDestroyForm == <<<<ActionKey, "destroy">>>>

(***************************************************************************)
(* Initial state                                                           *)
(***************************************************************************)
Init ==
    /\ pc = "idle"
    /\ origin = "none"
    /\ params = NoParams
    /\ body = "none"
    /\ formPayload = <<>>
    /\ formRead = FALSE
    /\ action = Unread
    /\ formEntries = <<>>
    /\ envVars = <<>>
    /\ validation = NoValidation
    /\ isDeploying = FALSE
    /\ project = ""
    /\ session = NoSession
    /\ calls = NoCalls
    /\ updateArg = NoData
    /\ response = NoResponse
    /\ thrown = "none"
    /\ ui = "viewing"
    /\ prompt = "none"

locals == <<formRead, action, formEntries, envVars, validation, isDeploying,
            project, session, calls, updateArg, response, thrown>>

(***************************************************************************)
(* The settings page                                                       *)
(***************************************************************************)
\* any client sends a request to the route: a form, or a body that is none
DirectRequest ==
    /\ pc = "idle" /\ ui = "viewing"
    /\ \E p \in RouteParams : params' = p
    /\ \/ /\ body' = "form"
          /\ \E f \in DirectForms : formPayload' = f
       \/ /\ \E b \in NonFormBodies : body' = b
          /\ formPayload' = <<>>
    /\ pc' = "received"
    /\ origin' = "direct"
    /\ prompt' = "none"
    /\ UNCHANGED <<locals, ui>>

\* <PrimaryButton type="submit" name="action" value="save"> of the settings form
PageSave ==
    /\ pc = "idle" /\ ui = "viewing"
    /\ \E f \in PageSaveForms : formPayload' = f
    /\ body' = "form"
    /\ params' = PageParams
    /\ pc' = "received"
    /\ origin' = "page"
    /\ prompt' = "none"
    /\ UNCHANGED <<locals, ui>>

\* <DangerButton name="action" value="destroy" type="submit">: the submit
\* event runs onSubmit, which opens the confirm() prompt
PageRemoveClick ==
    /\ pc = "idle" /\ ui = "viewing"
    /\ ui' = "confirming"
    /\ prompt' = "none"
    /\ UNCHANGED <<pc, origin, params, body, formPayload, locals>>

\* the user answers the prompt; a prevented submit event sends nothing
PageConfirm ==
    /\ ui = "confirming"
    /\ \E accepted \in BOOLEAN :
          /\ prompt' = IF accepted THEN "accepted" ELSE "declined"
          /\ IF SubmitPrevented(accepted)
             THEN UNCHANGED <<pc, origin, params, body, formPayload>>
             ELSE /\ pc' = "received"
                  /\ origin' = "page"
                  /\ params' = PageParams
                  /\ body' = "form"
                  /\ formPayload' = PageDestroyForm
    /\ ui' = "viewing"
    /\ UNCHANGED locals

(***************************************************************************)
(* The handler                                                             *)
(***************************************************************************)
\* z.object(...).parse(params): throws on a malformed param
ParseParams ==
    /\ pc = "received"
    /\ IF ParamsValid(params)
       THEN pc' = "parsed" /\ thrown' = thrown
       ELSE pc' = "failed" /\ thrown' = "ZodError"
    /\ UNCHANGED <<origin, params, body, formPayload, formRead, action, formEntries,
                   envVars, validation, isDeploying, project, session, calls,
                   updateArg, response, ui, prompt>>

\* const formPayload = await request.formData(), which rejects with a
\* TypeError on a body that is no form; const action = formPayload.get("action")
ReadFormData ==
    /\ pc = "parsed"
    /\ IF IsFormBody(body)
       THEN /\ formRead' = TRUE
            /\ action' = FormGet(formPayload, ActionKey)
            /\ pc' = "branch"
            /\ thrown' = thrown
       ELSE /\ formRead' = formRead
            /\ action' = action
            /\ pc' = "failed"
            /\ thrown' = "TypeError"
    /\ UNCHANGED <<origin, params, body, formPayload, formEntries, envVars,
                   validation, isDeploying, project, session, calls, updateArg,
                   response, ui, prompt>>

\* if (action === "destroy") { const project = await service.call(projectP)
DisableProject ==
    /\ pc = "branch"
    /\ IsDestroy(action)
    /\ calls' = [calls EXCEPT !.disable = @ + 1]
    /\ \/ /\ \E name \in ProjectNames : project' = name
          /\ pc' = "disabled"
          /\ thrown' = thrown
       \/ /\ project' = project
          /\ pc' = "failed"
          /\ thrown' = "DisableProjectError"
    /\ UNCHANGED <<origin, params, body, formPayload, formRead, action, formEntries,
                   envVars, validation, isDeploying, session, updateArg,
                   response, ui, prompt>>

\* const session = await setRequestSuccessMessage(request, `Repository ...`)
StoreDestroyMessage ==
    /\ pc = "disabled"
    /\ \/ /\ session' = DestroyMessage(project)
          /\ pc' = "destroyFlashed"
          /\ thrown' = thrown
       \/ /\ session' = session
          /\ pc' = "failed"
          /\ thrown' = "SessionError"
    /\ UNCHANGED <<origin, params, body, formPayload, formRead, action, formEntries,
                   envVars, validation, isDeploying, project, calls, updateArg,
                   response, ui, prompt>>

\* return redirect(`/orgs/${organizationSlug}/projects`,
\*                 { headers: await setToastMessageCookie(session) })
DestroyRespond ==
    /\ pc = "destroyFlashed"
    /\ \/ /\ response' = Redirect(ProjectListPath(params), session)
          /\ pc' = "done"
          /\ thrown' = thrown
       \/ /\ response' = response
          /\ pc' = "failed"
          /\ thrown' = "CookieError"
    /\ UNCHANGED <<origin, params, body, formPayload, formRead, action, formEntries,
                   envVars, validation, isDeploying, project, session, calls,
                   updateArg, ui, prompt>>

\* const formEntries = Object.fromEntries(formPayload); const envVars = ...
Reshape ==
    /\ pc = "branch"
    /\ ~IsDestroy(action)
    /\ formEntries' = ObjectFromEntries(formPayload)
    /\ envVars' = EnvVarsOf(formEntries')
    /\ pc' = "reshaped"
    /\ UNCHANGED <<origin, params, body, formPayload, formRead, action, validation,
                   isDeploying, project, session, calls, updateArg, response,
                   thrown, ui, prompt>>

\* const validation = service.validate(formEntries, envVars)
Validate ==
    /\ pc = "reshaped"
    /\ calls' = [calls EXCEPT !.validate = @ + 1]
    /\ \E v \in ValidateResults(formEntries, envVars) : validation' = v
    /\ pc' = "validated"
    /\ UNCHANGED <<origin, params, body, formPayload, formRead, action, formEntries,
                   envVars, isDeploying, project, session, updateArg, response,
                   thrown, ui, prompt>>

\* case "payloadError": return typedjson({ type: "validationError", ... }, { status: 422 })
RespondValidationError ==
    /\ pc = "validated"
    /\ validation.type = "payloadError"
    /\ response' = ValidationErrorResponse(validation.errors)
    /\ pc' = "done"
    /\ UNCHANGED <<origin, params, body, formPayload, formRead, action, formEntries,
                   envVars, validation, isDeploying, project, session, calls,
                   updateArg, thrown, ui, prompt>>

\* case "success": const isDeploying = await service.call(projectP, validation.data)
UpdateSettings ==
    /\ pc = "validated"
    /\ validation.type = "success"
    /\ calls' = [calls EXCEPT !.update = @ + 1]
    /\ updateArg' = validation.data
    /\ \/ /\ \E d \in BOOLEAN : isDeploying' = d
          /\ pc' = "updated"
          /\ thrown' = thrown
       \/ /\ isDeploying' = isDeploying
          /\ pc' = "failed"
          /\ thrown' = "UpdateProjectSettingsError"
    /\ UNCHANGED <<origin, params, body, formPayload, formRead, action, formEntries,
                   envVars, validation, project, session, response, ui, prompt>>

\* const session = await setRequestSuccessMessage(request, isDeploying ? ... : ...)
StoreSaveMessage ==
    /\ pc = "updated"
    /\ \/ /\ session' = SaveMessage(isDeploying)
          /\ pc' = "saveFlashed"
          /\ thrown' = thrown
       \/ /\ session' = session
          /\ pc' = "failed"
          /\ thrown' = "SessionError"
    /\ UNCHANGED <<origin, params, body, formPayload, formRead, action, formEntries,
                   envVars, validation, isDeploying, project, calls, updateArg,
                   response, ui, prompt>>

\* await setToastMessageCookie(session), then the redirect to the project
\* or typedjson({ type: "success" }, { status: 200, headers })
SaveRespond ==
    /\ pc = "saveFlashed"
    /\ \/ /\ response' = SaveResponse(isDeploying, params, session)
          /\ pc' = "done"
          /\ thrown' = thrown
       \/ /\ response' = response
          /\ pc' = "failed"
          /\ thrown' = "CookieError"
    /\ UNCHANGED <<origin, params, body, formPayload, formRead, action, formEntries,
                   envVars, validation, isDeploying, project, session, calls,
                   updateArg, ui, prompt>>

Next ==
    \/ DirectRequest
    \/ PageSave
    \/ PageRemoveClick
    \/ PageConfirm
    \/ ParseParams
    \/ ReadFormData
    \/ DisableProject
    \/ StoreDestroyMessage
    \/ DestroyRespond
    \/ Reshape
    \/ Validate
    \/ RespondValidationError
    \/ UpdateSettings
    \/ StoreSaveMessage
    \/ SaveRespond

Spec == Init /\ [][Next]_vars

(***************************************************************************)
(* The reshaper alone: the handler stands at the branch of a request that  *)
(* is not a removal, with any form of ReshaperForms, and reshapes it.      *)
(***************************************************************************)
InitReshaper ==
    /\ pc = "branch"
    /\ origin = "direct"
    /\ params = PageParams
    /\ body = "form"
    /\ formPayload \in ReshaperForms
    /\ formRead = TRUE
    /\ action = FormGet(formPayload, ActionKey)
    /\ formEntries = <<>>
    /\ envVars = <<>>
    /\ validation = NoValidation
    /\ isDeploying = FALSE
    /\ project = ""
    /\ session = NoSession
    /\ calls = NoCalls
    /\ updateArg = NoData
    /\ response = NoResponse
    /\ thrown = "none"
    /\ ui = "viewing"
    /\ prompt = "none"

NextReshaper == Reshape

ReshaperSpec == InitReshaper /\ [][NextReshaper]_vars

(***************************************************************************)
(* Vocabulary of the properties                                            *)
(***************************************************************************)
\* the `action` field the request carries
RequestAction == FormGet(formPayload, ActionKey)

\* the request has been handed to the handler
InRequest == pc # "idle"

\* the handler has returned a Response
Returned == pc = "done"

\* a key of the form envVars[NAME]
WellWrapped(key) ==
    /\ StartsWith(key, Prefix)
    /\ Len(key) > Len(Prefix)
    /\ key[Len(key)] = "]"

\* NAME of the key envVars[NAME]
Unwrap(key) == SubSeq(key, Len(Prefix) + 1, Len(key) - 1)

\* the entries of the reshaper's input the handler takes for variables
EnvEntryIndexes == {i \in 1..Len(formEntries) : StartsWith(formEntries[i][1], Prefix)}

\* the entries processed for the variable name n
ProcessedFor(n) == {i \in EnvEntryIndexes : EnvVarKey(formEntries[i][1]) = n}

\* the fields of the submitted form that carry the key k
SubmittedWith(k) == {i \in 1..Len(formPayload) : formPayload[i][1] = k}

Last(S) == CHOOSE i \in S : \A j \in S : j <= i

Reverse(q) == [i \in 1..Len(q) |-> q[Len(q) + 1 - i]]

\* an object as a mapping, its order forgotten
AsMap(obj) == {<<obj[i][1], obj[i][2]>> : i \in 1..Len(obj)}

(***************************************************************************)
(* C1                                                                      *)
(***************************************************************************)
\* C1: a request whose `action` field is "destroy" never reaches the update
\* orchestrator (neither validate nor call), whatever other fields it
\* carries, and the response the handler returns for it is the redirect to
\* /orgs/<organizationSlug>/projects carrying the flash message that names
\* the removed project.
C1_DestroyRedirectsToProjectList ==
    (InRequest /\ RequestAction = "destroy") =>
        /\ calls.validate = 0
        /\ calls.update = 0
        /\ response.kind # "none" => Returned
        /\ Returned =>
              /\ response.kind = "redirect"
              /\ response.location = <<"orgs", params.organizationSlug.v, "projects">>
              /\ response.cookie = <<"removed", project>>
              /\ calls.disable = 1

C1_Witness ==
    /\ Returned
    /\ RequestAction = "destroy"
    /\ Len(formPayload) > 1
    /\ response.kind = "redirect"
    /\ response.location = <<"orgs", "acme", "projects">>

(***************************************************************************)
(* C2                                                                      *)
(***************************************************************************)
\* C2: when validate returns the payloadError variant for an `action=save`
\* request, UpdateProjectSettings.call is not invoked, and the response is a
\* 422 whose body is the validationError marker with validate's own,
\* non-empty, list of errors.
C2_InvalidSaveIs422 ==
    (RequestAction = "save" /\ validation.type = "payloadError") =>
        /\ calls.update = 0
        /\ updateArg = NoData
        /\ thrown = "none"
        /\ Returned =>
              /\ response.kind = "json"
              /\ response.status = 422
              /\ response.body.type = "validationError"
              /\ response.body.errors = validation.errors
              /\ Len(response.body.errors) > 0

C2_Witness ==
    /\ Returned
    /\ RequestAction = "save"
    /\ validation.type = "payloadError"
    /\ response.status = 422
    /\ Len(response.body.errors) = 2

(***************************************************************************)
(* C3                                                                      *)
(***************************************************************************)
\* C3: for an `action=save` request whose payload validated, the response
\* follows the boolean the update orchestrator returned: true gives the
\* redirect to /orgs/<organizationSlug>/projects/<projectP>, false gives the
\* 200 response with the success marker, and nothing else is returned.
C3_ValidSaveFollowsIsDeploying ==
    (Returned /\ RequestAction = "save" /\ validation.type = "success") =>
        /\ calls.update = 1
        /\ IF isDeploying
           THEN /\ response.kind = "redirect"
                /\ response.location =
                      <<"orgs", params.organizationSlug.v, "projects", params.projectP.v>>
           ELSE /\ response.kind = "json"
                /\ response.status = 200
                /\ response.body.type = "success"

C3_Witness ==
    /\ Returned
    /\ RequestAction = "save"
    /\ validation.type = "success"
    /\ isDeploying
    /\ response.kind = "redirect"
    /\ response.location = <<"orgs", "acme", "projects", "proj">>

(***************************************************************************)
(* C4                                                                      *)
(***************************************************************************)
RedirectWithFlash ==
    /\ response.kind = "redirect"
    /\ response.cookie # NoSession

SuccessResponse ==
    /\ response.kind = "json"
    /\ response.status = 200
    /\ response.body.type = "success"

ValidationErrorsResponse ==
    /\ response.kind = "json"
    /\ response.status = 422
    /\ response.body.type = "validationError"

\* the handler has ended, one way or the other
Ended == pc \in {"done", "failed"}

\* C4 as stated: every execution that went through the destroy or the update
\* branch ends in a redirect with a flash cookie, a 200 success or a 422
\* validation error, and in nothing else.
C4_OnlyResponsesEnd ==
    (Ended /\ formRead) =>
        RedirectWithFlash \/ SuccessResponse \/ ValidationErrorsResponse

\* C4 amended: an execution that returns, returns exactly one of the three
\* responses; the only other way it ends is an exception that leaves the
\* handler uncaught (a malformed param, a body that is no form, a failing
\* orchestrator or a failing flash-message call), and then no response has
\* been produced.
C4_ResponsesOrUncaughtFailure ==
    /\ Returned =>
          /\ thrown = "none"
          /\ \/ RedirectWithFlash /\ ~SuccessResponse /\ ~ValidationErrorsResponse
             \/ SuccessResponse /\ ~RedirectWithFlash /\ ~ValidationErrorsResponse
             \/ ValidationErrorsResponse /\ ~RedirectWithFlash /\ ~SuccessResponse
    /\ pc = "failed" =>
          /\ response = NoResponse
          /\ thrown \in {"ZodError", "TypeError", "DisableProjectError",
                        "UpdateProjectSettingsError", "SessionError", "CookieError"}
    /\ ~Ended => response = NoResponse /\ thrown = "none"

C4_Witness ==
    /\ pc = "failed"
    /\ formRead
    /\ calls.disable = 1
    /\ thrown = "DisableProjectError"

(***************************************************************************)
(* C5                                                                      *)
(***************************************************************************)
\* C5: the reshaped mapping is built from exactly the keys that begin with
\* envVars[ and end with ], each under the name left when that wrapper is
\* stripped, with the value of its key; the flat fields stay as submitted;
\* and without any envVars[...] key the mapping is empty.
C5_SelectsWrappedKeys ==
    pc = "reshaped" =>
        /\ AsMap(envVars) =
              {<<Unwrap(formEntries[i][1]), formEntries[i][2]>> :
                  i \in {j \in 1..Len(formEntries) : WellWrapped(formEntries[j][1])}}
        /\ AsMap(formEntries) =
              {<<formPayload[i][1], formPayload[Last(SubmittedWith(formPayload[i][1]))][2]>> :
                  i \in 1..Len(formPayload)}

(***************************************************************************)
(* C6                                                                      *)
(***************************************************************************)
\* C6: the reshaped mapping holds one entry per variable name; a key that
\* was submitted more than once contributes the value of its last field;
\* and when several keys reshape to one name, the name holds the value of
\* the last of them in processing order (the order of Object.entries).
C6_LastOccurrenceWins ==
    pc = "reshaped" =>
        /\ \A i, j \in 1..Len(envVars) : envVars[i][1] = envVars[j][1] => i = j
        /\ \A i \in 1..Len(formEntries) :
              formEntries[i][2] =
                  formPayload[Last(SubmittedWith(formEntries[i][1]))][2]
        /\ \A i \in EnvEntryIndexes :
              LET n == EnvVarKey(formEntries[i][1])
              IN  /\ ObjHas(envVars, n)
                  /\ ObjGet(envVars, n) = formEntries[Last(ProcessedFor(n))][2]

C6_Witness ==
    /\ pc = "reshaped"
    /\ Len(formPayload) = 2
    /\ formPayload[1][1] = EnvKeyA
    /\ formPayload[2][1] = EnvKeyA
    /\ formPayload[1][2] = "x"
    /\ formPayload[2][2] = "y"
    /\ envVars = <<<<(<<"A">>), "y">>>>

(***************************************************************************)
(* C7                                                                      *)
(***************************************************************************)
\* C7: whenever the fields hold envVars[A]=x and envVars[B]=y with A # B,
\* the reshaped mapping has A -> x and B -> y, and the same mapping comes
\* out when the keys arrive in the opposite order.
C7_DistinctNamesAnyOrder ==
    pc = "reshaped" =>
        \A i, j \in 1..Len(formEntries) :
            LET ki == formEntries[i][1]
                kj == formEntries[j][1]
            IN  (WellWrapped(ki) /\ WellWrapped(kj) /\ Unwrap(ki) # Unwrap(kj)) =>
                    /\ ObjGet(envVars, Unwrap(ki)) = formEntries[i][2]
                    /\ ObjGet(envVars, Unwrap(kj)) = formEntries[j][2]
                    /\ AsMap(EnvVarsOf(Reverse(formEntries))) = AsMap(envVars)

(***************************************************************************)
(* C8                                                                      *)
(***************************************************************************)
\* C8 as stated: DisableProjectService.call never runs without an accepted
\* confirmation before it.
C8_DisableOnlyAfterConfirmation ==
    calls.disable > 0 => prompt = "accepted"

\* C8 amended: a removal submitted through the settings page reaches the
\* handler only after the prompt was accepted, and a declined prompt cancels
\* the submission, so that nothing is sent to the handler; the handler
\* itself asks for no confirmation.
C8_PageRemovalIsConfirmed ==
    /\ (origin = "page" /\ InRequest /\ RequestAction = "destroy") =>
          prompt = "accepted"
    /\ (origin = "page" /\ calls.disable > 0) => prompt = "accepted"
    /\ prompt = "declined" => (pc = "idle" /\ calls = NoCalls /\ formPayload = <<>>)

C8_Witness ==
    /\ origin = "page"
    /\ prompt = "accepted"
    /\ calls.disable = 1
    /\ Returned

(***************************************************************************)
(* C9                                                                      *)
(***************************************************************************)
\* C9: with a route param that is missing or not a string, the handler
\* fails on the parse: the form body is never read, no collaborator is
\* invoked, no flash message is stored and no response (so no cookie) is
\* produced.
C9_MalformedParamsFailFirst ==
    (InRequest /\ (params.projectP.t # "string" \/ params.organizationSlug.t # "string")) =>
        /\ ~formRead
        /\ action = Unread
        /\ calls = NoCalls
        /\ session = NoSession
        /\ response = NoResponse
        /\ pc \in {"received", "failed"}
        /\ pc = "failed" => thrown = "ZodError"

C9_Witness ==
    /\ pc = "failed"
    /\ thrown = "ZodError"
    /\ params.projectP.t = "string"
    /\ params.organizationSlug.t = "undefined"
    /\ RequestAction = "destroy"

(***************************************************************************)
(* C10                                                                     *)
(***************************************************************************)
\* the handler is past the test of `action`
PastBranch ==
    \/ pc \in {"disabled", "destroyFlashed", "reshaped", "validated", "updated",
               "saveFlashed"}
    \/ Ended /\ formRead

\* C10: in one request the two orchestrators together perform at most one
\* side effect; once the handler is past its branch, DisableProjectService
\* has been called exactly when `action` is the string "destroy"; every
\* other value, and an absent field, goes to validate, and
\* UpdateProjectSettings.call runs only on the success variant, with the
\* validated data.
C10_OneSideEffectByDiscriminator ==
    /\ calls.disable + calls.update <= 1
    /\ calls.disable = 1 => action = "destroy"
    /\ PastBranch => (calls.disable = 1 <=> action = "destroy")
    /\ (PastBranch /\ action # "destroy") =>
          /\ formEntries = ObjectFromEntries(formPayload)
          /\ pc # "reshaped" => calls.validate = 1
    /\ calls.update = 1 =>
          /\ calls.validate = 1
          /\ validation.type = "success"
          /\ updateArg = validation.data
          /\ updateArg.validated
    /\ calls.update = 0 => updateArg = NoData

C10_Witness ==
    /\ Returned
    /\ action = Null
    /\ calls.update = 1
    /\ calls.disable = 0
    /\ updateArg.validated

====
